---- MODULE Spec2Model ----
(***************************************************************************)
(* Model of the vv-pgo-instrument WebAssembly rewriter.                    *)
(*                                                                         *)
(* Spec   : one or two consecutive invocations of main (src/src/main.rs)   *)
(*          on a module file: profile resolution, indirect-call type scan, *)
(*          stub synthesis, the per-function site inventory and the        *)
(*          call-site rewrite of instrument and optimize mode.             *)
(* SpecPM : process_map (src/src/profilemap.rs) applied to a table and a   *)
(*          profile of observation lists.                                  *)
(* SpecFC : compute_slowcalls (src/src/fastcalls.rs): the scan of every    *)
(*          local function and the fast / slow fixed point.                *)
(* SpecWR : generate_slowcall_stubs (src/src/fastcalls.rs).                *)
(* SpecGS : generate_stubs (src/src/instrument.rs) and calls through the   *)
(*          stubs it made.                                                 *)
(* SpecRT : an instrument run of main and calls through the stubs of the   *)
(*          module it wrote, with the profiling globals they update.       *)
(***************************************************************************)
EXTENDS Integers, Sequences, FiniteSets, TLC

VARIABLES
    infile,           \* the module file read by the current invocation
    map,              \* Option<Profile>: call_site_index -> i32
    overflow_checks,  \* build profile: TRUE = debug (usize overflow panics)
    is_opt,           \* --profile given to the current invocation
    module,           \* walrus::Module held in memory (funcs arena)
    modified_map,     \* HashMap<usize, MapValue>
    original_map,     \* clone of modified_map before stub synthesis
    final_types,      \* HashSet<(TypeId, TableId)>
    todo,             \* entries the stub-synthesis loop has not visited yet
    stubs,            \* HashMap<TypeId, FunctionId>
    idx,              \* stub name counter
    global_index,     \* call sites rewritten so far
    cur,              \* position of iter_local_mut in the funcs arena
    seqs_to_process,  \* worklist of the function being inventoried
    insertion_point,  \* recorded sites of the function, not yet rewritten
    site_index,       \* history: InstrLocId of a rewritten site -> index used
    globals,          \* number of profiling globals added
    outfile,          \* the module written by the current invocation
    run,              \* 1 = first invocation, 2 = second
    prev,             \* what the first invocation read, wrote and numbered
    pc,               \* position of the current invocation in main
    pm_in,            \* process_map: its module and profile arguments
    pm_out,           \* process_map: the resulting modified_map
    pm_pc,            \* process_map: "call", "done" or "fatal"
    fc_in,            \* compute_slowcalls: the module it is given
    scan_results,     \* compute_slowcalls: FastCallScan of every local function
    fastcalls,        \* compute_slowcalls: func_id of the scans known fast
    slowcalls,        \* compute_slowcalls: func_id of the scans known slow
    unknown,          \* compute_slowcalls: func_id of the ambiguous scans
    fc_prev,          \* compute_slowcalls: prev, unknown.len() one iteration ago
    fc_set,           \* compute_slowcalls: the set returned
    fc_pc,            \* compute_slowcalls: "scan", "loop", "done" or "fatal"
    wr_in,            \* generate_slowcall_stubs: the functions it was given
    wr_module,        \* generate_slowcall_stubs: the functions of its module
    wr_slowcalls,     \* generate_slowcall_stubs: its slowcalls argument
    func_mapping,     \* generate_slowcall_stubs: slowcall -> its stub
    wr_pc,            \* generate_slowcall_stubs: "stubs" or "done"
    gs_in,            \* generate_stubs: the arguments as given
    gs_module,        \* generate_stubs: the functions of module
    gs_map,           \* generate_stubs: modified_map
    gs_stubs,         \* generate_stubs: stubs
    gs_idx,           \* generate_stubs: idx, the stub name counter
    gs_todo,          \* generate_stubs: entries its loop has not visited yet
    gs_pc,            \* generate_stubs: "loop", "done" or "fatal"
    rt_pc,            \* a module at run time: "off" or "running"
    rt_funcs,         \* a module at run time: its functions
    rt_table,         \* a module at run time: first segment of its table
    rt_globals,       \* a module at run time: value of each profiling global
    rt_executed,      \* history: site indices passed to a stub so far
    rt_last           \* history: the latest call through a stub

mainvars == <<infile, map, overflow_checks, is_opt, module, modified_map,
              original_map, final_types, todo, stubs, idx, global_index, cur,
              seqs_to_process, insertion_point, site_index, globals, outfile,
              run, prev, pc>>
pmvars == <<pm_in, pm_out, pm_pc>>
fcvars == <<fc_in, scan_results, fastcalls, slowcalls, unknown, fc_prev, fc_set, fc_pc>>
wrvars == <<wr_in, wr_module, wr_slowcalls, func_mapping, wr_pc>>
gsvars == <<gs_in, gs_module, gs_map, gs_stubs, gs_idx, gs_todo, gs_pc>>
rtvars == <<rt_pc, rt_funcs, rt_table, rt_globals, rt_executed, rt_last>>
vars == <<mainvars, pmvars, fcvars, wrvars, gsvars, rtvars>>

(***************************************************************************)
(* Bounds of the model.                                                    *)
(***************************************************************************)
MaxKey == 2   \* a profile has the keys 0 .. n-1 for some n <= MaxKey
MaxObs == 2   \* longest observation list given to process_map

\* Option<T>: None is the empty tuple, Some(x) the tuple of x.  The result
\* of an operation that can panic is written the same way: Panic or Ok(x).
None == <<>>
Some(x) == <<x>>
Panic == <<>>
Ok(x) == <<x>>
Get(o) == o[1]        \* unwrap of a Some / an Ok

NoLoc == <<>>         \* InstrLocId::default() of an inserted instruction
EmptyMap == <<>>      \* HashMap::new()

\* The parts of the program that are not running.
PMIdle == pm_in = None /\ pm_out = None /\ pm_pc = "idle"
FCIdle ==
    /\ fc_in = None
    /\ scan_results = EmptyMap
    /\ fastcalls = {}
    /\ slowcalls = {}
    /\ unknown = {}
    /\ fc_prev = 0
    /\ fc_set = None
    /\ fc_pc = "idle"
WRIdle ==
    /\ wr_in = <<>>
    /\ wr_module = <<>>
    /\ wr_slowcalls = {}
    /\ func_mapping = EmptyMap
    /\ wr_pc = "idle"
GSIdle ==
    /\ gs_in = None
    /\ gs_module = <<>>
    /\ gs_map = EmptyMap
    /\ gs_stubs = EmptyMap
    /\ gs_idx = 0
    /\ gs_todo = {}
    /\ gs_pc = "idle"
RTIdle ==
    /\ rt_pc = "off"
    /\ rt_funcs = <<>>
    /\ rt_table = None
    /\ rt_globals = EmptyMap
    /\ rt_executed = {}
    /\ rt_last = None

\* Mutant of MapGet: a missing key reads as the no-op MapValue.
MapGetOrRetain(m, k) ==
    IF k \in DOMAIN m THEN Some(m[k]) ELSE Some([f_id |-> None, f_bool |-> FALSE])
MapGet(m, k) == IF k \in DOMAIN m THEN Some(m[k]) ELSE None   \* HashMap::get
MapInsert(m, k, v) == [x \in (DOMAIN m) \cup {k} |-> IF x = k THEN v ELSE m[x]]

(***************************************************************************)
(* Instructions (walrus::ir::Instr with its InstrLocId).  a and b are the  *)
(* operands of the instruction: type and table of a call_indirect, the     *)
(* sequence ids of a block, a loop (a) or an if-else (a, b), the callee of *)
(* a call, the value of a constant, the local or global of a get / set.    *)
(***************************************************************************)
Instr(op, a, b) == [op |-> op, a |-> a, b |-> b, loc |-> NoLoc]
CallIndirectI(ty, table) == Instr("call_indirect", ty, table)
BlockI(seq) == Instr("block", seq, 0)
LoopI(seq) == Instr("loop", seq, 0)
IfElseI(cons, alt) == Instr("if_else", cons, alt)
CallI(f) == Instr("call", f, 0)
ConstI(v) == Instr("i32.const", v, 0)
UnreachableI == Instr("unreachable", 0, 0)
LocalGetI(l) == Instr("local.get", l, 0)
GlobalGetI(g) == Instr("global.get", g, 0)
GlobalSetI(g) == Instr("global.set", g, 0)
BinopI(o) == Instr(o, 0, 0)
OtherI == Instr("other", 0, 0)

\* Vec::insert and Vec::remove at a 0-based position; both panic out of range.
VecInsert(s, pos, x) ==
    IF pos > Len(s) THEN Panic
    ELSE Ok(SubSeq(s, 1, pos) \o <<x>> \o SubSeq(s, pos + 1, Len(s)))
VecRemove(s, pos) ==
    IF pos >= Len(s) THEN Panic
    ELSE Ok(SubSeq(s, 1, pos) \o SubSeq(s, pos + 2, Len(s)))

(***************************************************************************)
(* usize arithmetic.  A usize is written [hi, lo] and stands for the       *)
(* number hi * 2^64 + lo: an i32 x >= 0 converts to [0, x] and an i32      *)
(* x < 0 sign-extends to 2^64 + x = [1, x].  Exact while |lo| < 2^31.      *)
(***************************************************************************)
AsUsize(x) == [hi |-> IF x < 0 THEN 1 ELSE 0, lo |-> x]

\* a - b on usize: a subtraction that underflows panics when the build has
\* overflow checks and wraps modulo 2^64 when it has none.
UsizeSub(a, b, checked) ==
    LET d == a.lo - b.lo IN
    CASE a.hi = b.hi /\ d >= 0 -> Ok([hi |-> 0, lo |-> d])
      [] a.hi = b.hi /\ d < 0  -> IF checked THEN Panic ELSE Ok([hi |-> 1, lo |-> d])
      [] a.hi > b.hi           -> Ok([hi |-> 1, lo |-> d])
      [] a.hi < b.hi           -> IF checked THEN Panic ELSE Ok([hi |-> 0, lo |-> d])

\* v[i] of a Vec: a bounds-checked read.
VecIndex(v, i) ==
    IF i.hi = 0 /\ i.lo < Len(v) THEN Ok(v[i.lo + 1]) ELSE Panic

\* Mutant of MemberAt: the subtraction saturates at 0 instead of underflowing.
MemberAtSaturating(members, x, offset, checked) ==
    LET i == UsizeSub(AsUsize(x), offset, TRUE)
    IN  IF i = Panic THEN VecIndex(members, AsUsize(0))
        ELSE VecIndex(members, Get(i))

\* e.members[(x as usize) - offset]
MemberAt(members, x, offset, checked) ==
    LET i == UsizeSub(AsUsize(x), offset, checked)
    IN  IF i = Panic THEN Panic ELSE VecIndex(members, Get(i))

\* The offset of an element segment: the i32 constant of an active segment
\* converted with `as usize`, 0 for any other kind or initializer.
I32Offset(x) == [kind |-> "i32.const", x |-> x]
OtherOffset == [kind |-> "other", x |-> 0]
SegmentOffset(e) ==
    IF e.offset.kind = "i32.const" THEN AsUsize(e.offset.x) ELSE AsUsize(0)

(***************************************************************************)
(* Input modules.  A function body is a sequence of instruction sequences; *)
(* the index of a sequence is its InstrSeqId, 1 is the entry block.  A     *)
(* function type is a type of the input (of) with extra i32 parameters     *)
(* appended; the input has two types, with 0 and with 1 parameter.         *)
(***************************************************************************)
TypeIds == {1, 2}
MainTable == 0
FuncType(of, extra) == [of |-> of, extra |-> extra]
NParams(ty) == (ty.of - 1) + ty.extra

CI(ty) == CallIndirectI(ty, MainTable)

Bodies ==
    <<  \* 1: no indirect call
        << <<OtherI>> >>,
        \* 2: one site
        << <<OtherI, CI(1)>> >>,
        \* 3: two sites of two types in one sequence
        << <<OtherI, CI(1), OtherI, CI(2), OtherI>> >>,
        \* 4: a block before a site, two adjacent sites in the block
        << <<BlockI(2), OtherI, CI(1)>>,
           <<CI(1), CI(2)>> >>,
        \* 5: a loop and a block pushed from the same sequence
        << <<LoopI(2), BlockI(3)>>,
           <<CI(2)>>,
           <<OtherI, CI(1)>> >>,
        \* 6: a site in the consequent of an if-else, one after it
        << <<OtherI, IfElseI(2, 3), CI(1)>>,
           <<CI(2)>>,
           <<OtherI>> >>,
        \* 7: a block in the alternative of an if-else
        << <<IfElseI(2, 3)>>,
           <<OtherI>>,
           <<BlockI(4)>>,
           <<CI(1)>> >>,
        \* 8: a block nested in a loop
        << <<LoopI(2)>>,
           <<BlockI(3), CI(1)>>,
           <<CI(1)>> >>
    >>

\* The shapes of the local functions of each input module.
ModuleShapes ==
    { <<1>>, <<2>>, <<3>>, <<4>>, <<5>>, <<6>>, <<7>>, <<8>>,
      <<2, 3>>, <<1, 4>>, <<6, 2>> }

\* Every instruction of the input carries its own InstrLocId <<f, seq, pos>>.
Tag(f, body) ==
    [s \in DOMAIN body |->
        [i \in DOMAIN body[s] |-> [body[s][i] EXCEPT !.loc = <<f, s, i>>]]]

InputFunction(f, shape, named) ==
    [name |-> IF named THEN Some(<<"func", f>>) ELSE None,
     ty |-> FuncType(1, 0),
     args |-> <<>>,
     body |-> Tag(f, Bodies[shape])]

\* Element segments of the main function table: at most one is looked at.
\* The slots of a table are numbered below 2^32 and a segment lies within
\* its table: the offset constant -k names the slot 2^32 - k, which leaves
\* room for fewer than k members.
Segments ==
    { [offset |-> o, members |-> <<None, Some(1)>>] :
        o \in {OtherOffset, I32Offset(1), I32Offset(-3)} }

\* The main function table of an input: absent, without element segment,
\* or with one.
Tables ==
    { [has |-> FALSE, segs |-> <<>>], [has |-> TRUE, segs |-> <<>>] }
    \cup { [has |-> TRUE, segs |-> <<e>>] : e \in Segments }

InstrsOf(body) == UNION { { body[s][i] : i \in DOMAIN body[s] } : s \in DOMAIN body }
HasCallIndirect(funcs) ==
    \E f \in DOMAIN funcs : \E in \in InstrsOf(funcs[f].body) : in.op = "call_indirect"

\* The module files read: call_indirect needs a table to validate; the
\* functions of a module carry names unless the shapes are in Stripped.
Stripped == { <<2>>, <<6, 2>> }
InputModules ==
    { m \in { [table |-> t,
               funcs |-> [f \in DOMAIN sh |-> InputFunction(f, sh[f], nm)]] :
                 t \in Tables, sh \in ModuleShapes, nm \in BOOLEAN } :
        /\ HasCallIndirect(m.funcs) => m.table.has
        /\ m.funcs[1].name = None =>
              \E sh \in Stripped : Len(sh) = Len(m.funcs) /\
                 \A f \in DOMAIN sh : m.funcs[f].body = Tag(f, Bodies[sh[f]]) }

\* The value recorded for a site: -1, -2 or a table index.
ProfileValues == {-2, -1, 0, 1, 2}
Profiles == UNION { [0 .. (n - 1) -> ProfileValues] : n \in 0 .. MaxKey }

(***************************************************************************)
(* Profile resolution in main.                                             *)
(***************************************************************************)
MapValue(f_id, f_bool) == [f_id |-> f_id, f_bool |-> f_bool]

\* The entry main records for one profile value, or Panic.
ResolveEntry(e, indirect_idx, checked) ==
    IF indirect_idx >= 0 THEN
        LET m == MemberAt(e.members, indirect_idx, SegmentOffset(e), checked)
        IN  IF m = Panic THEN Panic ELSE Ok(MapValue(Get(m), FALSE))
    ELSE IF indirect_idx = -2 THEN Ok(MapValue(None, FALSE))
    ELSE Ok(MapValue(None, TRUE))

(***************************************************************************)
(* Scan for indirect call types: dfs_pre_order_mut with TypeScan.          *)
(***************************************************************************)
RECURSIVE DfsSeqs(_, _)
DfsSeqs(body, s) ==
    {s} \cup UNION { CASE body[s][i].op \in {"block", "loop"} -> DfsSeqs(body, body[s][i].a)
                       [] body[s][i].op = "if_else" ->
                            DfsSeqs(body, body[s][i].a) \cup DfsSeqs(body, body[s][i].b)
                       [] OTHER -> {}
                     : i \in DOMAIN body[s] }

TypeScan(func) ==
    UNION { { <<func.body[s][i].a, func.body[s][i].b>> :
                i \in { j \in DOMAIN func.body[s] :
                          func.body[s][j].op = "call_indirect" } } :
            s \in DfsSeqs(func.body, 1) }

(***************************************************************************)
(* Stub synthesis in main.                                                 *)
(***************************************************************************)
\* indirect_stub_<k> of instrument mode for the call type ty.
InstrumentStub(ty, tab, k) ==
    LET nparams == NParams(FuncType(ty, 2))
        param_locals == [j \in 1 .. (nparams + 1) |-> j - 1]
    IN  [name |-> Some(<<"indirect_stub", k>>),
         ty |-> FuncType(ty, 2),
         args |-> param_locals,
         body |-> << [j \in 1 .. (nparams - 1) |-> LocalGetI(param_locals[j])]
                     \o <<CallIndirectI(ty, tab)>> >>]

\* indirect_call_stub_<k> of optimize mode for the callee id and the
\* profile value target.
OptimizeStub(ty_id, id, target, k) ==
    LET nparams == NParams(ty_id) + 1
        param_locals == [j \in 1 .. nparams |-> j - 1]
    IN  [name |-> Some(<<"indirect_call_stub", k>>),
         ty |-> FuncType(ty_id.of, ty_id.extra + 1),
         args |-> param_locals,
         body |-> << <<BlockI(2)>>
                       \o [j \in 1 .. (nparams - 1) |-> LocalGetI(param_locals[j])]
                       \o <<CallI(id)>>,
                     <<ConstI(target), LocalGetI(param_locals[nparams]),
                       BinopI("i32.ne"), IfElseI(3, 4)>>,
                     <<UnreachableI>>,
                     <<>> >>]

(***************************************************************************)
(* The site inventory of one instruction sequence.                         *)
(***************************************************************************)
\* Mutant of ScanInstrs: the running offset grows in optimize mode too.
RECURSIVE ScanInstrsAlwaysOffset(_, _, _, _, _, _)
ScanInstrsAlwaysOffset(instrs, i, current_seq, offset, opt, acc) ==
    IF i > Len(instrs) THEN acc
    ELSE LET instr == instrs[i]
             count == i - 1
         IN  CASE instr.op = "call_indirect" ->
                    ScanInstrsAlwaysOffset(instrs, i + 1, current_seq, offset + 1, opt,
                               [acc EXCEPT !.points =
                                   Append(@, <<current_seq, count + offset, instr.a>>)])
               [] instr.op \in {"block", "loop"} ->
                    ScanInstrsAlwaysOffset(instrs, i + 1, current_seq, offset, opt,
                               [acc EXCEPT !.pushed = Append(@, instr.a)])
               [] OTHER ->
                    ScanInstrsAlwaysOffset(instrs, i + 1, current_seq, offset, opt, acc)

\* The loop over bmut.instrs from instruction i on: acc.points are the
\* (seq, position, type) pushed to insertion_point, acc.pushed the sequence
\* ids pushed to seqs_to_process, in order.
RECURSIVE ScanInstrs(_, _, _, _, _, _)
ScanInstrs(instrs, i, current_seq, offset, opt, acc) ==
    IF i > Len(instrs) THEN acc
    ELSE LET instr == instrs[i]
             count == i - 1
         IN  CASE instr.op = "call_indirect" ->
                    ScanInstrs(instrs, i + 1, current_seq,
                               IF opt THEN offset ELSE offset + 1, opt,
                               [acc EXCEPT !.points =
                                   Append(@, <<current_seq, count + offset, instr.a>>)])
               [] instr.op \in {"block", "loop"} ->
                    ScanInstrs(instrs, i + 1, current_seq, offset, opt,
                               [acc EXCEPT !.pushed = Append(@, instr.a)])
               [] OTHER ->
                    ScanInstrs(instrs, i + 1, current_seq, offset, opt, acc)

ScanSequence(instrs, current_seq, opt) ==
    ScanInstrs(instrs, 1, current_seq, 0, opt, [points |-> <<>>, pushed |-> <<>>])

(***************************************************************************)
(* The rewrite of one recorded site.                                       *)
(***************************************************************************)
\* Mutant of RewriteInstrument: the constant is inserted first, so the call
\* ends up before it.
RewriteInstrumentSwapped(instrs, point, stub, index) ==
    LET s1 == VecInsert(instrs, point, ConstI(index))
        s2 == IF s1 = Panic THEN Panic ELSE VecInsert(Get(s1), point, CallI(stub))
    IN  IF s2 = Panic THEN Panic ELSE VecRemove(Get(s2), point + 2)

\* Instrument mode: call stub at point, the constant before it, and the
\* instruction now at point + 2 removed.
RewriteInstrument(instrs, point, stub, index) ==
    LET s1 == VecInsert(instrs, point, CallI(stub))
        s2 == IF s1 = Panic THEN Panic ELSE VecInsert(Get(s1), point, ConstI(index))
    IN  IF s2 = Panic THEN Panic ELSE VecRemove(Get(s2), point + 2)

\* Mutant of RewriteOptimize: the stale call_indirect is not removed.
RewriteOptimizeNoRemove(instrs, point, map_val) ==
    IF map_val.f_id # None THEN VecInsert(instrs, point, CallI(Get(map_val.f_id)))
    ELSE IF map_val.f_bool THEN VecInsert(instrs, point, UnreachableI)
    ELSE Ok(instrs)

\* Mutant of RewriteOptimize: the remove takes the inserted instruction out
\* again and leaves the call_indirect.
RewriteOptimizeRemoveNew(instrs, point, map_val) ==
    IF map_val.f_id # None THEN
        LET s1 == VecInsert(instrs, point, CallI(Get(map_val.f_id)))
        IN  IF s1 = Panic THEN Panic ELSE VecRemove(Get(s1), point)
    ELSE IF map_val.f_bool THEN
        LET s1 == VecInsert(instrs, point, UnreachableI)
        IN  IF s1 = Panic THEN Panic ELSE VecRemove(Get(s1), point)
    ELSE Ok(instrs)

\* Optimize mode: the three operations of a MapValue.
RewriteOptimize(instrs, point, map_val) ==
    IF map_val.f_id # None THEN
        LET s1 == VecInsert(instrs, point, CallI(Get(map_val.f_id)))
        IN  IF s1 = Panic THEN Panic ELSE VecRemove(Get(s1), point + 1)
    ELSE IF map_val.f_bool THEN
        LET s1 == VecInsert(instrs, point, UnreachableI)
        IN  IF s1 = Panic THEN Panic ELSE VecRemove(Get(s1), point + 1)
    ELSE Ok(instrs)

(***************************************************************************)
(* Observation wiring of an indirect stub (instrument mode).               *)
(***************************************************************************)
\* Mutant of ObservationBlock: the target is stored whatever the global holds.
ObservationBlockAlwaysSet(func, global_idx) ==
    LET n == Len(func.body)
        args == func.args
        site == args[Len(args) - 1]
        target == args[Len(args) - 2]
    IN  [func EXCEPT !.body =
            << <<BlockI(n + 1)>> \o func.body[1] >>
            \o SubSeq(func.body, 2, n)
            \o << <<LocalGetI(site), ConstI(global_idx), BinopI("i32.eq"),
                    IfElseI(n + 2, n + 3)>>,
                  <<GlobalGetI(global_idx), ConstI(-1), BinopI("i32.eq"),
                    IfElseI(n + 4, n + 4),
                    LocalGetI(target), GlobalGetI(global_idx), BinopI("i32.ne"),
                    IfElseI(n + 6, n + 7)>>,
                  <<>>,
                  <<LocalGetI(target), GlobalSetI(global_idx)>>,
                  <<>>,
                  <<ConstI(-2), GlobalSetI(global_idx)>>,
                  <<>> >>]

\* func_body.block_at(0, ..) for the profiling global global_idx.
ObservationBlock(func, global_idx) ==
    LET n == Len(func.body)
        args == func.args
        site == args[Len(args) - 1]      \* args[args.len() - 2]
        target == args[Len(args) - 2]    \* args[args.len() - 3]
    IN  [func EXCEPT !.body =
            << <<BlockI(n + 1)>> \o func.body[1] >>
            \o SubSeq(func.body, 2, n)
            \o << <<LocalGetI(site), ConstI(global_idx), BinopI("i32.eq"),
                    IfElseI(n + 2, n + 3)>>,
                  <<GlobalGetI(global_idx), ConstI(-1), BinopI("i32.eq"),
                    IfElseI(n + 4, n + 5),
                    LocalGetI(target), GlobalGetI(global_idx), BinopI("i32.ne"),
                    IfElseI(n + 6, n + 7)>>,
                  <<>>,
                  <<LocalGetI(target), GlobalSetI(global_idx)>>,
                  <<>>,
                  <<ConstI(-2), GlobalSetI(global_idx)>>,
                  <<>> >>]

RECURSIVE WireStub(_, _, _)
WireStub(func, global_idx, count) ==
    IF global_idx >= count THEN func
    ELSE WireStub(ObservationBlock(func, global_idx), global_idx + 1, count)

(***************************************************************************)
(* main.                                                                   *)
(***************************************************************************)
skip_funcs == { stubs[ty] : ty \in DOMAIN stubs }

\* The InstrLocId of the instruction at a 0-based position (history only).
LocAt(instrs, point) == IF point < Len(instrs) THEN instrs[point + 1].loc ELSE NoLoc

NoRun == [infile |-> None, outfile |-> None, site_index |-> EmptyMap,
          modified_map |-> EmptyMap, is_opt |-> FALSE]

Init ==
    /\ infile \in InputModules
    /\ module = infile
    /\ is_opt \in BOOLEAN
    /\ map \in IF is_opt THEN { Some(p) : p \in Profiles } ELSE {None}
    /\ overflow_checks \in BOOLEAN
    /\ modified_map = EmptyMap
    /\ original_map = EmptyMap
    /\ final_types = {}
    /\ todo = {}
    /\ stubs = EmptyMap
    /\ idx = 0
    /\ global_index = 0
    /\ cur = 1
    /\ seqs_to_process = <<>>
    /\ insertion_point = <<>>
    /\ site_index = EmptyMap
    /\ globals = 0
    /\ outfile = None
    /\ pc = "resolve"
    /\ run = 1
    /\ prev = NoRun
    /\ PMIdle
    /\ FCIdle
    /\ WRIdle
    /\ GSIdle
    /\ RTIdle

Fatal ==
    /\ pc' = "fatal"
    /\ UNCHANGED <<module, modified_map, original_map, final_types, todo, stubs,
                   idx, global_index, cur, seqs_to_process, insertion_point,
                   site_index, globals, outfile>>

Same == UNCHANGED <<infile, map, overflow_checks, is_opt, run, prev, pmvars,
                    fcvars, wrvars, gsvars, rtvars>>

\* main.rs 107-166: the main function table, the profile remap, original_map.
ResolveProfile ==
    /\ pc = "resolve"
    /\ Same
    /\ IF ~module.table.has THEN Fatal
       ELSE IF ~is_opt \/ module.table.segs = <<>> THEN
            /\ pc' = "typescan"
            /\ UNCHANGED <<module, modified_map, original_map, final_types, todo,
                           stubs, idx, global_index, cur, seqs_to_process,
                           insertion_point, site_index, globals, outfile>>
       ELSE LET e == module.table.segs[1]
                entry(k) == ResolveEntry(e, Get(map)[k], overflow_checks)
            IN  IF \E k \in DOMAIN Get(map) : entry(k) = Panic THEN Fatal
                ELSE /\ modified_map' = [k \in DOMAIN Get(map) |-> Get(entry(k))]
                     /\ original_map' = modified_map'
                     /\ pc' = "typescan"
                     /\ UNCHANGED <<module, final_types, todo, stubs, idx,
                                    global_index, cur, seqs_to_process,
                                    insertion_point, site_index, globals, outfile>>

\* main.rs 167-187: the indirect call types of every local function.
ScanTypes ==
    /\ pc = "typescan"
    /\ Same
    /\ final_types' = UNION { TypeScan(module.funcs[f]) : f \in DOMAIN module.funcs }
    /\ todo' = IF is_opt
               THEN { k \in DOMAIN modified_map : modified_map[k].f_id # None }
               ELSE final_types'
    /\ idx' = 0
    /\ pc' = "stubs"
    /\ UNCHANGED <<module, modified_map, original_map, stubs, global_index, cur,
                   seqs_to_process, insertion_point, site_index, globals, outfile>>

\* main.rs 189-225: one iteration of the loop over final_types.
GenerateInstrumentStub ==
    /\ pc = "stubs"
    /\ ~is_opt
    /\ Same
    /\ \E t \in todo :
         /\ module' = [module EXCEPT !.funcs =
                          Append(@, InstrumentStub(t[1], t[2], idx))]
         /\ stubs' = MapInsert(stubs, t[1], Len(module.funcs) + 1)
         /\ todo' = todo \ {t}
    /\ idx' = idx + 1
    /\ UNCHANGED <<modified_map, original_map, final_types, global_index, cur,
                   seqs_to_process, insertion_point, site_index, globals, outfile, pc>>

\* main.rs 230-294: one iteration of the loop over the cloned modified_map,
\* for an entry that holds a function.
GenerateOptimizeStub ==
    /\ pc = "stubs"
    /\ is_opt
    /\ Same
    /\ \E key \in todo :
         LET id == Get(modified_map[key].f_id)
             f == module.funcs[id]
         IN  IF f.name = None THEN Fatal
             ELSE /\ module' = [module EXCEPT !.funcs =
                                   Append(@, OptimizeStub(f.ty, id, Get(map)[key], idx))]
                  /\ modified_map' = [modified_map EXCEPT ![key] =
                                         MapValue(Some(Len(module.funcs) + 1), FALSE)]
                  /\ todo' = todo \ {key}
                  /\ idx' = idx + 1
                  /\ UNCHANGED <<original_map, final_types, stubs, global_index, cur,
                                 seqs_to_process, insertion_point, site_index,
                                 globals, outfile, pc>>

\* main.rs 297-305: skip_funcs and global_index.
StubsDone ==
    /\ pc = "stubs"
    /\ todo = {}
    /\ Same
    /\ global_index' = 0
    /\ cur' = 1
    /\ pc' = "funcs"
    /\ UNCHANGED <<module, modified_map, original_map, final_types, todo, stubs, idx,
                   seqs_to_process, insertion_point, site_index, globals, outfile>>

\* main.rs 307-315: the next local function of iter_local_mut.
EnterFunc ==
    /\ pc = "funcs"
    /\ cur <= Len(module.funcs)
    /\ Same
    /\ IF cur \in skip_funcs
       THEN /\ cur' = cur + 1
            /\ UNCHANGED <<seqs_to_process, insertion_point, pc>>
       ELSE /\ seqs_to_process' = <<1>>
            /\ insertion_point' = <<>>
            /\ pc' = "inventory"
            /\ UNCHANGED cur
    /\ UNCHANGED <<module, modified_map, original_map, final_types, todo, stubs, idx,
                   global_index, site_index, globals, outfile>>

\* main.rs 317-340: pop one sequence and scan its instructions.
ScanSeq ==
    /\ pc = "inventory"
    /\ Same
    /\ IF Len(seqs_to_process) > 0
       THEN LET current_seq == seqs_to_process[Len(seqs_to_process)]
                found == ScanSequence(module.funcs[cur].body[current_seq],
                                      current_seq, is_opt)
            IN  /\ seqs_to_process' =
                      SubSeq(seqs_to_process, 1, Len(seqs_to_process) - 1) \o found.pushed
                /\ insertion_point' = insertion_point \o found.points
                /\ UNCHANGED pc
       ELSE /\ pc' = "rewrite"
            /\ UNCHANGED <<seqs_to_process, insertion_point>>
    /\ UNCHANGED <<module, modified_map, original_map, final_types, todo, stubs, idx,
                   global_index, cur, site_index, globals, outfile>>

\* main.rs 343-361: one iteration of the instrument-mode loop.
RewriteSiteInstrument ==
    /\ pc = "rewrite"
    /\ ~is_opt
    /\ insertion_point # <<>>
    /\ Same
    /\ LET seq == insertion_point[1][1]
           point == insertion_point[1][2]
           ty == insertion_point[1][3]
           instrs == module.funcs[cur].body[seq]
           new == IF ty \in DOMAIN stubs
                  THEN RewriteInstrument(instrs, point, stubs[ty], global_index)
                  ELSE Panic
       IN  IF new = Panic THEN Fatal
           ELSE /\ module' = [module EXCEPT !.funcs[cur].body[seq] = Get(new)]
                /\ site_index' = MapInsert(site_index, LocAt(instrs, point),
                                           global_index)
                /\ global_index' = global_index + 1
                /\ insertion_point' = Tail(insertion_point)
                /\ UNCHANGED <<modified_map, original_map, final_types, todo, stubs,
                               idx, cur, seqs_to_process, globals, outfile, pc>>

\* main.rs 362-403: one iteration of the optimize-mode loop.
RewriteSiteOptimize ==
    /\ pc = "rewrite"
    /\ is_opt
    /\ insertion_point # <<>>
    /\ Same
    /\ LET seq == insertion_point[1][1]
           point == insertion_point[1][2]
           instrs == module.funcs[cur].body[seq]
           map_val == MapGet(modified_map, global_index)
           orig_map_val == MapGet(original_map, global_index)
       IN  IF map_val = None \/ orig_map_val = None THEN Fatal
           ELSE LET new == RewriteOptimize(instrs, point, Get(map_val))
                IN  IF new = Panic THEN Fatal
                    ELSE /\ module' = [module EXCEPT !.funcs[cur].body[seq] = Get(new)]
                         /\ site_index' = MapInsert(site_index, LocAt(instrs, point),
                                                    global_index)
                         /\ global_index' = global_index + 1
                         /\ insertion_point' = Tail(insertion_point)
                         /\ UNCHANGED <<modified_map, original_map, final_types, todo,
                                        stubs, idx, cur, seqs_to_process, globals,
                                        outfile, pc>>

\* main.rs 404-405: the end of the closure for this function.
LeaveFunc ==
    /\ pc = "rewrite"
    /\ insertion_point = <<>>
    /\ Same
    /\ cur' = cur + 1
    /\ pc' = "funcs"
    /\ UNCHANGED <<module, modified_map, original_map, final_types, todo, stubs, idx,
                   global_index, seqs_to_process, insertion_point, site_index,
                   globals, outfile>>

\* main.rs 407-477: the profiling globals and the wiring of the stubs.
WireGlobals ==
    /\ pc = "funcs"
    /\ cur > Len(module.funcs)
    /\ ~is_opt
    /\ Same
    /\ globals' = global_index
    /\ module' = [module EXCEPT !.funcs =
                     [f \in DOMAIN module.funcs |->
                        IF f \in skip_funcs
                        THEN WireStub(module.funcs[f], 0, global_index)
                        ELSE module.funcs[f]]]
    /\ pc' = "emit"
    /\ UNCHANGED <<modified_map, original_map, final_types, todo, stubs, idx,
                   global_index, cur, seqs_to_process, insertion_point, site_index,
                   outfile>>

\* main.rs 407: optimize mode adds no globals.
SkipGlobals ==
    /\ pc = "funcs"
    /\ cur > Len(module.funcs)
    /\ is_opt
    /\ Same
    /\ pc' = "emit"
    /\ UNCHANGED <<module, modified_map, original_map, final_types, todo, stubs, idx,
                   global_index, cur, seqs_to_process, insertion_point, site_index,
                   globals, outfile>>

\* main.rs 479-480: emit_wasm and the write of the output file.
EmitWasm ==
    /\ pc = "emit"
    /\ Same
    /\ outfile' = Some(module)
    /\ pc' = "done"
    /\ UNCHANGED <<module, modified_map, original_map, final_types, todo, stubs, idx,
                   global_index, cur, seqs_to_process, insertion_point, site_index,
                   globals>>

\* A second invocation, in optimize mode: with the same profile on the
\* module an optimize run has written, or with some profile on the input
\* of an instrument run.
SecondRun ==
    /\ pc = "done"
    /\ run = 1
    /\ run' = 2
    /\ prev' = [infile |-> infile, outfile |-> outfile, site_index |-> site_index,
                modified_map |-> modified_map, is_opt |-> is_opt]
    /\ infile' = IF is_opt THEN Get(outfile) ELSE infile
    /\ module' = infile'
    /\ is_opt' = TRUE
    /\ modified_map' = EmptyMap
    /\ original_map' = EmptyMap
    /\ final_types' = {}
    /\ todo' = {}
    /\ stubs' = EmptyMap
    /\ idx' = 0
    /\ global_index' = 0
    /\ cur' = 1
    /\ seqs_to_process' = <<>>
    /\ insertion_point' = <<>>
    /\ site_index' = EmptyMap
    /\ globals' = 0
    /\ outfile' = None
    /\ pc' = "resolve"
    /\ map' \in IF is_opt THEN {map} ELSE { Some(p) : p \in Profiles }
    /\ rt_pc = "off"
    /\ UNCHANGED <<overflow_checks, pmvars, fcvars, wrvars, gsvars, rtvars>>

Next ==
    \/ ResolveProfile
    \/ ScanTypes
    \/ GenerateInstrumentStub
    \/ GenerateOptimizeStub
    \/ StubsDone
    \/ EnterFunc
    \/ ScanSeq
    \/ RewriteSiteInstrument
    \/ RewriteSiteOptimize
    \/ LeaveFunc
    \/ WireGlobals
    \/ SkipGlobals
    \/ EmitWasm
    \/ SecondRun

Spec == Init /\ [][Next]_vars

(***************************************************************************)
(* process_map of profilemap.rs: the profile maps a call site to the list  *)
(* of its observations.                                                    *)
(***************************************************************************)
\* Mutant of ProcessEntry: one -2 among the observations is enough to retain.
ProcessEntryAnyRetain(e, indirect_idx, checked) ==
    LET IsCall(v) == v # -2 /\ v # -1
        IsRetain(v) == v = -2
        calls == SelectSeq(indirect_idx, IsCall)
        member(j) == MemberAt(e.members, calls[j], SegmentOffset(e), checked)
    IN  IF Len(calls) > 0 THEN
            IF \E j \in DOMAIN calls : member(j) = Panic \/ Get(member(j)) = None
            THEN Panic
            ELSE Ok(MapValue(Some([j \in DOMAIN calls |-> Get(Get(member(j)))]), FALSE))
        ELSE IF Len(SelectSeq(indirect_idx, IsRetain)) > 0
        THEN Ok(MapValue(None, FALSE))
        ELSE Ok(MapValue(None, TRUE))

\* The entry recorded for one observation list, or Panic.
ProcessEntry(e, indirect_idx, checked) ==
    LET IsCall(v) == v # -2 /\ v # -1
        IsRetain(v) == v = -2
        calls == SelectSeq(indirect_idx, IsCall)
        member(j) == MemberAt(e.members, calls[j], SegmentOffset(e), checked)
    IN  IF Len(calls) > 0 THEN
            IF \E j \in DOMAIN calls : member(j) = Panic \/ Get(member(j)) = None
            THEN Panic
            ELSE Ok(MapValue(Some([j \in DOMAIN calls |-> Get(Get(member(j)))]), FALSE))
        ELSE IF Len(SelectSeq(indirect_idx, IsRetain)) = Len(indirect_idx)
        THEN Ok(MapValue(None, FALSE))
        ELSE Ok(MapValue(None, TRUE))

\* The modified_map process_map leaves, or Panic.
process_map(table, original_map_arg, checked) ==
    IF ~table.has THEN Panic
    ELSE IF table.segs = <<>> THEN Ok(EmptyMap)
    ELSE LET e == table.segs[1]
             entry(k) == ProcessEntry(e, original_map_arg[k], checked)
         IN  IF \E k \in DOMAIN original_map_arg : entry(k) = Panic THEN Panic
             ELSE Ok([k \in DOMAIN original_map_arg |-> Get(entry(k))])

\* The inputs of process_map: a table, a profile and the build.
PMSegments ==
    { [offset |-> o, members |-> <<Some(1), None, Some(2)>>] :
        o \in {OtherOffset, I32Offset(1), I32Offset(-4)} }
PMTables ==
    { [has |-> FALSE, segs |-> <<>>], [has |-> TRUE, segs |-> <<>>] }
    \cup { [has |-> TRUE, segs |-> <<e>>] : e \in PMSegments }
Observations == {-2, -1, 0, 1, 2}
ObservationLists == UNION { [1 .. n -> Observations] : n \in 0 .. MaxObs }
PMKeys == { {}, {0}, {0, 1} }
PMProfiles == UNION { [keys -> ObservationLists] : keys \in PMKeys }

MainIdle ==
    /\ infile = [table |-> [has |-> FALSE, segs |-> <<>>], funcs |-> <<>>]
    /\ module = infile
    /\ is_opt = TRUE
    /\ map = None
    /\ overflow_checks = TRUE
    /\ modified_map = EmptyMap
    /\ original_map = EmptyMap
    /\ final_types = {}
    /\ todo = {}
    /\ stubs = EmptyMap
    /\ idx = 0
    /\ global_index = 0
    /\ cur = 1
    /\ seqs_to_process = <<>>
    /\ insertion_point = <<>>
    /\ site_index = EmptyMap
    /\ globals = 0
    /\ outfile = None
    /\ pc = "idle"
    /\ run = 1
    /\ prev = NoRun

InitPM ==
    /\ pm_in \in { Some([table |-> t, map |-> p, overflow_checks |-> c]) :
                     t \in PMTables, p \in PMProfiles, c \in BOOLEAN }
    /\ pm_out = None
    /\ pm_pc = "call"
    /\ MainIdle
    /\ FCIdle
    /\ WRIdle
    /\ GSIdle
    /\ RTIdle

\* profilemap.rs 17-71: the call of process_map.
ProcessMap ==
    /\ pm_pc = "call"
    /\ LET in == Get(pm_in)
           res == process_map(in.table, in.map, in.overflow_checks)
       IN  IF res = Panic
           THEN /\ pm_pc' = "fatal"
                /\ pm_out' = None
           ELSE /\ pm_pc' = "done"
                /\ pm_out' = res
    /\ UNCHANGED <<pm_in, mainvars, fcvars, wrvars, gsvars, rtvars>>

NextPM == ProcessMap

SpecPM == InitPM /\ [][NextPM]_vars

\* Both resolvers: an invocation of main, or a call of process_map.
InitAll == Init \/ InitPM
NextAll == Next \/ NextPM
SpecAll == InitAll /\ [][NextAll]_vars

(***************************************************************************)
(* compute_slowcalls of fastcalls.rs.  The functions 1 .. 3 of its module  *)
(* are imports, the functions 4 .. 6 are local.                            *)
(***************************************************************************)
MaxBody == 2   \* longest generated function body, in instructions

ImportNames == <<"proc_exit", "fd_write", "fd_read">>
LocalFuncs == {4, 5, 6}
ReturnI == Instr("return", 0, 0)

\* The instructions in the order dfs_pre_order_mut visits them: an
\* instruction, then the sequences nested in it, then the next one.
RECURSIVE DfsInstrs(_, _, _)
DfsInstrs(body, s, i) ==
    IF i > Len(body[s]) THEN <<>>
    ELSE LET instr == body[s][i]
             nested == CASE instr.op \in {"block", "loop"} -> DfsInstrs(body, instr.a, 1)
                         [] instr.op = "if_else" ->
                              DfsInstrs(body, instr.a, 1) \o DfsInstrs(body, instr.b, 1)
                         [] OTHER -> <<>>
         IN  <<instr>> \o nested \o DfsInstrs(body, s, i + 1)

\* Mutant of VisitFastCall: a call of the function itself is ignored.
VisitFastCallIgnoreSelf(scan, instr) ==
    IF scan.start_id = scan.func_id THEN [scan EXCEPT !.is_fastcall = FALSE]
    ELSE CASE instr.op = "call_indirect" ->
            LET all == { x[1] : x \in { y \in scan.all_funcs : y[2] = FuncType(instr.a, 0) } }
            IN  [scan EXCEPT !.deps = @ \cup (all \ {scan.func_id})]
      [] instr.op = "call" ->
            IF scan.func_id = instr.a THEN scan
            ELSE IF instr.a \in scan.imported_funcs THEN [scan EXCEPT !.is_fastcall = FALSE]
            ELSE [scan EXCEPT !.deps = @ \cup {instr.a}]
      [] OTHER -> scan

\* FastCallScan::visit_instr_mut.
VisitFastCall(scan, instr) ==
    IF scan.start_id = scan.func_id THEN [scan EXCEPT !.is_fastcall = FALSE]
    ELSE CASE instr.op = "call_indirect" ->
            LET all == { x[1] : x \in { y \in scan.all_funcs : y[2] = FuncType(instr.a, 0) } }
            IN  IF scan.func_id \in all
                THEN [scan EXCEPT !.is_fastcall = FALSE]
                ELSE [scan EXCEPT !.deps = @ \cup all]
      [] instr.op = "call" ->
            IF scan.func_id = instr.a THEN [scan EXCEPT !.is_fastcall = FALSE]
            ELSE IF instr.a \in scan.imported_funcs THEN [scan EXCEPT !.is_fastcall = FALSE]
            ELSE [scan EXCEPT !.deps = @ \cup {instr.a}]
      [] OTHER -> scan

\* dfs_pre_order_mut(&mut scan, func, entry) from instruction i of the order.
RECURSIVE ScanFunc(_, _, _)
ScanFunc(scan, order, i) ==
    IF i > Len(order) THEN scan
    ELSE ScanFunc(VisitFastCall(scan, order[i]), order, i + 1)

\* The import ids that are not proc_exit or fd_write.
ImportedFuncs(m) ==
    { k \in DOMAIN m.imports : m.imports[k] # "proc_exit" /\ m.imports[k] # "fd_write" }

\* The (function, type) pairs of the first element segment of the main
\* function table; Panic without a segment or with a null member.
CallTable(m) ==
    IF ~m.table.has THEN Ok({})
    ELSE IF m.table.segs = <<>> THEN Panic
    ELSE LET members == m.table.segs[1]
         IN  IF \E j \in DOMAIN members : members[j] = None THEN Panic
             ELSE Ok({ <<Get(members[j]), m.funcs[Get(members[j])].ty>> :
                         j \in DOMAIN members })

\* The scan of every local function, or Panic.
ScanResults(m) ==
    IF m.start = None \/ CallTable(m) = Panic THEN Panic
    ELSE Ok([f \in DOMAIN m.funcs |->
               ScanFunc([is_fastcall |-> TRUE, deps |-> {}, func_id |-> f,
                         imported_funcs |-> ImportedFuncs(m),
                         all_funcs |-> Get(CallTable(m)),
                         start_id |-> Get(m.start)],
                        DfsInstrs(m.funcs[f].body, 1, 1), 1)])

\* contains_slowcall and check_fastcall_deps.
contains_slowcall(scan, slowset) == { x \in scan.deps : x \in slowset } # {}
check_fastcall_deps(scan, fastset) ==
    Cardinality({ x \in scan.deps : x \in fastset }) = Cardinality(scan.deps)

\* The modules given to compute_slowcalls.  _start has one of three bodies;
\* the body of function 5 or 6 takes at most MaxBody of the calls listed for
\* it, in the order of the list.
FCInstrs(f) ==
    IF f = 5 THEN <<CallI(1), CallI(4), CallI(5), CallI(6), CallIndirectI(1, MainTable)>>
    ELSE <<CallI(2), CallI(3), CallI(5), CallI(6), CallIndirectI(2, MainTable)>>
RECURSIVE Pick(_, _, _)
Pick(seq, S, i) ==
    IF i > Len(seq) THEN <<>>
    ELSE (IF i \in S THEN <<seq[i]>> ELSE <<>>) \o Pick(seq, S, i + 1)
FCBodies(f) ==
    IF f = 4 THEN { << <<>> >>, << <<OtherI>> >>, << <<BlockI(2)>>, <<CallI(5)>> >> }
    ELSE { <<Pick(FCInstrs(f), S, 1)>> :
             S \in { T \in SUBSET DOMAIN FCInstrs(f) : Cardinality(T) <= MaxBody } }
FCFuncType(f) == IF f = 6 THEN FuncType(2, 0) ELSE FuncType(1, 0)
FCTables ==
    { [has |-> FALSE, segs |-> <<>>],
      [has |-> TRUE, segs |-> << <<Some(5)>> >>],
      [has |-> TRUE, segs |-> << <<Some(5), Some(6)>> >>] }
\* Modules on which compute_slowcalls panics: no export named _start, a
\* main function table without element segment, a null member.
FCBroken ==
    { [start |-> None, table |-> [has |-> FALSE, segs |-> <<>>]],
      [start |-> Some(4), table |-> [has |-> TRUE, segs |-> <<>>]],
      [start |-> Some(4), table |-> [has |-> TRUE, segs |-> << <<Some(6), None>> >>]] }
FCModule(start, table, b4, b5, b6) ==
    [imports |-> ImportNames, start |-> start, table |-> table,
     funcs |-> [f \in LocalFuncs |->
                  [ty |-> FCFuncType(f),
                   body |-> IF f = 4 THEN b4 ELSE IF f = 5 THEN b5 ELSE b6]]]
FCInputs ==
    { FCModule(Some(4), t, b4, b5, b6) :
        t \in FCTables, b4 \in FCBodies(4), b5 \in FCBodies(5), b6 \in FCBodies(6) }
    \cup { FCModule(x.start, x.table, << <<>> >>, << <<CallI(5)>> >>, << <<CallI(5)>> >>) :
             x \in FCBroken }

InitFC ==
    /\ fc_in \in { Some(m) : m \in FCInputs }
    /\ scan_results = EmptyMap
    /\ fastcalls = {}
    /\ slowcalls = {}
    /\ unknown = {}
    /\ fc_prev = 0
    /\ fc_set = None
    /\ fc_pc = "scan"
    /\ MainIdle
    /\ PMIdle
    /\ WRIdle
    /\ GSIdle
    /\ RTIdle

\* fastcalls.rs 108-213: imports, _start, the call table, the scan of every
\* local function and the three seed sets.
ScanFuncs ==
    /\ fc_pc = "scan"
    /\ LET res == ScanResults(Get(fc_in))
       IN  IF res = Panic
           THEN /\ fc_pc' = "fatal"
                /\ UNCHANGED <<scan_results, fastcalls, slowcalls, unknown>>
           ELSE LET r == Get(res)
                IN  /\ scan_results' = r
                    /\ fastcalls' = { f \in DOMAIN r : r[f].is_fastcall /\ r[f].deps = {} }
                    /\ slowcalls' = { f \in DOMAIN r : ~r[f].is_fastcall }
                    /\ unknown' = { f \in DOMAIN r : r[f].is_fastcall /\ r[f].deps # {} }
                    /\ fc_pc' = "loop"
    /\ fc_prev' = 0
    /\ UNCHANGED <<fc_in, fc_set, mainvars, pmvars, wrvars, gsvars, rtvars>>

\* Mutant of LoopStep: prev is not updated.
LoopStepStalePrev(u, fast, slow) ==
    LET slow_new == { x \in u : contains_slowcall(scan_results[x], slow) }
        fast_new == { x \in u : check_fastcall_deps(scan_results[x], fast) }
    IN  [prev |-> 0,
         slowcalls |-> slow \cup slow_new,
         fastcalls |-> fast \cup fast_new,
         unknown |-> (u \ (slow \cup slow_new)) \ (fast \cup fast_new)]

\* Mutant of LoopStep: a function with one fast dependency is fast.
LoopStepAnyFast(u, fast, slow) ==
    LET slow_new == { x \in u : contains_slowcall(scan_results[x], slow) }
        fast_new == { x \in u : scan_results[x].deps \cap fast # {} }
    IN  [prev |-> Cardinality(u),
         slowcalls |-> slow \cup slow_new,
         fastcalls |-> fast \cup fast_new,
         unknown |-> (u \ (slow \cup slow_new)) \ (fast \cup fast_new)]

\* One iteration of the loop of compute_slowcalls on the three sets.
LoopStep(u, fast, slow) ==
    LET slow_new == { x \in u : contains_slowcall(scan_results[x], slow) }
        fast_new == { x \in u : check_fastcall_deps(scan_results[x], fast) }
    IN  [prev |-> Cardinality(u),
         slowcalls |-> slow \cup slow_new,
         fastcalls |-> fast \cup fast_new,
         unknown |-> (u \ (slow \cup slow_new)) \ (fast \cup fast_new)]

\* fastcalls.rs 214-242: one iteration of while unknown.len() != prev.
FixIter ==
    /\ fc_pc = "loop"
    /\ Cardinality(unknown) # fc_prev
    /\ LET n == LoopStep(unknown, fastcalls, slowcalls)
       IN  /\ fc_prev' = n.prev
           /\ slowcalls' = n.slowcalls
           /\ fastcalls' = n.fastcalls
           /\ unknown' = n.unknown
    /\ UNCHANGED <<fc_in, scan_results, fc_set, fc_pc,
                   mainvars, pmvars, wrvars, gsvars, rtvars>>

\* fastcalls.rs 244-260: what is still unknown is slow; the set returned.
FixDone ==
    /\ fc_pc = "loop"
    /\ Cardinality(unknown) = fc_prev
    /\ slowcalls' = slowcalls \cup unknown
    /\ fc_set' = Some(slowcalls')
    /\ fc_pc' = "done"
    /\ UNCHANGED <<fc_in, scan_results, fastcalls, unknown, fc_prev,
                   mainvars, pmvars, wrvars, gsvars, rtvars>>

NextFC == ScanFuncs \/ FixIter \/ FixDone
SpecFC == InitFC /\ [][NextFC]_vars
\* The loop is a sequential program: it takes its next step.
FairSpecFC == SpecFC /\ WF_vars(NextFC)

(***************************************************************************)
(* generate_slowcall_stubs of fastcalls.rs, on the local functions 4 .. 6  *)
(* and any set of them as slowcalls.                                       *)
(***************************************************************************)
SlowcallCtr == 0

\* The stub of a slowcall: count it, pass the parameters on, call it.
SlowcallStub(func, ty) ==
    [ty |-> ty,
     body |-> << <<GlobalGetI(SlowcallCtr), ConstI(1), BinopI("i32.add"),
                   GlobalSetI(SlowcallCtr)>>
                 \o [k \in 1 .. NParams(ty) |-> LocalGetI(k - 1)]
                 \o <<CallI(func)>> >>]

\* Mutant of CallScannerVisit: calls are substituted inside the stubs too.
CallScannerVisitAll(mapping, curr_func, instr) ==
    IF instr.op = "call" /\ instr.a \in DOMAIN mapping
    THEN [instr EXCEPT !.a = mapping[instr.a]]
    ELSE instr

\* CallScanner::visit_instr_mut.
CallScannerVisit(mapping, curr_func, instr) ==
    IF instr.op = "call" /\ instr.a \in DOMAIN mapping /\ mapping[instr.a] # curr_func
    THEN [instr EXCEPT !.a = mapping[instr.a]]
    ELSE instr

\* dfs_pre_order_mut with a CallScanner over the body of function id.
ScanCalls(mapping, id, func) ==
    [func EXCEPT !.body =
        [q \in DOMAIN func.body |->
            [i \in DOMAIN func.body[q] |->
                CallScannerVisit(mapping, id, func.body[q][i])]]]

\* The bodies given to generate_slowcall_stubs.
WRInstrs == {CallI(1), CallI(4), CallI(5), CallI(6), OtherI}
WRBodies(f) ==
    CASE f = 4 -> { << <<>> >>,
                    << <<CallI(1), CallI(6)>> >>,
                    << <<BlockI(2), CallI(5)>>, <<CallI(6), CallI(4)>> >> }
      [] f = 5 -> { <<b>> : b \in UNION { [1 .. n -> WRInstrs] : n \in 0 .. MaxBody } }
      [] OTHER -> { << <<>> >>, << <<CallI(6)>> >>, << <<CallI(5), OtherI>> >> }
WRInputs ==
    { [f \in LocalFuncs |->
         [ty |-> FCFuncType(f),
          body |-> IF f = 4 THEN b4 ELSE IF f = 5 THEN b5 ELSE b6]] :
        b4 \in WRBodies(4), b5 \in WRBodies(5), b6 \in WRBodies(6) }

InitWR ==
    /\ wr_in \in WRInputs
    /\ wr_module = wr_in
    /\ wr_slowcalls \in SUBSET LocalFuncs
    /\ func_mapping = EmptyMap
    /\ wr_pc = "stubs"
    /\ MainIdle
    /\ PMIdle
    /\ FCIdle
    /\ GSIdle
    /\ RTIdle

\* fastcalls.rs 297-325: the stub of one more slowcall, in the order the
\* HashSet yields them.
GenerateSlowcallStub ==
    /\ wr_pc = "stubs"
    /\ \E func \in wr_slowcalls \ DOMAIN func_mapping :
         LET new_stub_id == 1 + Cardinality(DOMAIN ImportNames)
                              + Cardinality(DOMAIN wr_module)
         IN  /\ wr_module' = MapInsert(wr_module, new_stub_id,
                                       SlowcallStub(func, wr_module[func].ty))
             /\ func_mapping' = MapInsert(func_mapping, func, new_stub_id)
    /\ UNCHANGED <<wr_in, wr_slowcalls, wr_pc, mainvars, pmvars, fcvars, gsvars, rtvars>>

\* fastcalls.rs 327-335: every stub exists; the calls of every local
\* function, the stubs among them, are replaced.
ReplaceCalls ==
    /\ wr_pc = "stubs"
    /\ wr_slowcalls \subseteq DOMAIN func_mapping
    /\ wr_module' = [id \in DOMAIN wr_module |->
                       ScanCalls(func_mapping, id, wr_module[id])]
    /\ wr_pc' = "done"
    /\ UNCHANGED <<wr_in, wr_slowcalls, func_mapping, mainvars, pmvars, fcvars,
                   gsvars, rtvars>>

NextWR == GenerateSlowcallStub \/ ReplaceCalls
SpecWR == InitWR /\ [][NextWR]_vars

(***************************************************************************)
(* generate_stubs of instrument.rs, given the functions 1 .. 3 that the    *)
(* first element segment holds, and either the call types found or the     *)
(* modified_map process_map made of a profile.                             *)
(***************************************************************************)
\* Mutant of IndirectStub: every parameter is loaded, the last one too.
IndirectStubAllParams(ty, tab, k) ==
    LET nparams == NParams(FuncType(ty, 2))
        param_locals == [j \in 1 .. nparams |-> j - 1]
    IN  [name |-> Some(<<"indirect_stub", k>>),
         ty |-> FuncType(ty, 2),
         args |-> param_locals,
         body |-> << [j \in 1 .. (Len(param_locals) - 1) |->
                         LocalGetI(param_locals[j + 1])]
                     \o <<CallIndirectI(ty, tab)>> >>]

\* indirect_stub_<k> of instrument.rs for the call type ty.
IndirectStub(ty, tab, k) ==
    LET nparams == NParams(FuncType(ty, 2))
        param_locals == [j \in 1 .. nparams |-> j - 1]
    IN  [name |-> Some(<<"indirect_stub", k>>),
         ty |-> FuncType(ty, 2),
         args |-> param_locals,
         body |-> << [j \in 1 .. (Len(param_locals) - 1) |-> LocalGetI(param_locals[j])]
                     \o <<CallIndirectI(ty, tab)>> >>]

\* indirect_call_stub_<k> of instrument.rs for the callees id of type ty_id
\* and the observation list target of the profile.  The block of call_idx
\* is put in front of the blocks before it; unreachable comes last.
CallStub(ty_id, id, target, k) ==
    LET nparams == NParams(ty_id) + 1
        param_locals == [j \in 1 .. nparams |-> j - 1]
        n == Len(id)
        guard(c) == <<ConstI(target[c + 1]), LocalGetI(param_locals[nparams]),
                      BinopI("i32.eq"), IfElseI(3 + 3 * c, 4 + 3 * c)>>
        then(c) == [j \in 1 .. (nparams - 1) |-> LocalGetI(param_locals[j])]
                   \o <<CallI(id[c + 1]), ReturnI>>
    IN  [name |-> Some(<<"indirect_call_stub", k>>),
         ty |-> FuncType(ty_id.of, ty_id.extra + 1),
         args |-> param_locals,
         body |-> [q \in 1 .. (1 + 3 * n) |->
                     IF q = 1
                     THEN [j \in 1 .. n |-> BlockI(2 + 3 * (n - j))] \o <<UnreachableI>>
                     ELSE CASE (q - 2) % 3 = 0 -> guard((q - 2) \div 3)
                            [] (q - 2) % 3 = 1 -> then((q - 2) \div 3)
                            [] OTHER -> <<>>]]

\* The arguments of generate_stubs.
GSFuncs(named) ==
    [f \in 1 .. 3 |->
        [name |-> IF named \/ f # 2 THEN Some(<<"func", f>>) ELSE None,
         ty |-> FuncType(IF f = 3 THEN 2 ELSE 1, 0),
         args |-> [j \in 1 .. (IF f = 3 THEN 1 ELSE 0) |-> j - 1],
         body |-> << <<OtherI>> >>]]
GSSegments ==
    { [offset |-> o, members |-> <<Some(1), Some(2), Some(3)>>] :
        o \in {I32Offset(0), I32Offset(1)} }
GSProfiles ==
    { [key \in {0} |-> l] : l \in ObservationLists }
    \cup { [key \in {0, 1} |-> IF key = 0 THEN l ELSE m] :
             l \in ObservationLists, m \in { <<-2>>, <<1>> } }
GSInputs ==
    { [is_opt |-> FALSE, funcs |-> GSFuncs(TRUE), segment |-> e, map |-> None,
       modified_map |-> EmptyMap, final_types |-> ft] :
        e \in GSSegments, ft \in SUBSET (TypeIds \X {MainTable}) }
    \cup
    { [is_opt |-> TRUE, funcs |-> GSFuncs(x.named), segment |-> x.e, map |-> Some(x.p),
       modified_map |-> Get(process_map([has |-> TRUE, segs |-> <<x.e>>], x.p, TRUE)),
       final_types |-> {}] :
        x \in { y \in [e : GSSegments, p : GSProfiles, named : BOOLEAN] :
                  process_map([has |-> TRUE, segs |-> <<y.e>>], y.p, TRUE) # Panic } }

InitGS ==
    /\ gs_in \in { Some(x) : x \in GSInputs }
    /\ gs_module = Get(gs_in).funcs
    /\ gs_map = Get(gs_in).modified_map
    /\ gs_stubs = EmptyMap
    /\ gs_idx = 0
    /\ gs_todo = IF Get(gs_in).is_opt THEN DOMAIN Get(gs_in).modified_map
                 ELSE Get(gs_in).final_types
    /\ gs_pc = "loop"
    /\ MainIdle
    /\ PMIdle
    /\ FCIdle
    /\ WRIdle
    /\ RTIdle

\* instrument.rs 18-60: the stub of one more (type, table) of final_types.
GenerateIndirectStub ==
    /\ gs_pc = "loop"
    /\ ~Get(gs_in).is_opt
    /\ \E e \in gs_todo :
         LET indirect_stub_id == Len(gs_module) + 1
         IN  /\ gs_module' = Append(gs_module, IndirectStub(e[1], e[2], gs_idx))
             /\ gs_stubs' = MapInsert(gs_stubs, e[1], indirect_stub_id)
             /\ gs_todo' = gs_todo \ {e}
    /\ gs_idx' = gs_idx + 1
    /\ UNCHANGED <<gs_in, gs_map, gs_pc, mainvars, pmvars, fcvars, wrvars, rtvars>>

\* instrument.rs 66-143: one more entry of the clone of modified_map.
GenerateCallStub ==
    /\ gs_pc = "loop"
    /\ Get(gs_in).is_opt
    /\ \E key \in gs_todo :
         LET val == Get(gs_in).modified_map[key]
         IN  /\ gs_todo' = gs_todo \ {key}
             /\ IF val.f_id = None \/ Len(Get(val.f_id)) = 0
                THEN UNCHANGED <<gs_module, gs_map, gs_idx, gs_pc>>
                ELSE LET id == Get(val.f_id)
                         ty_id == gs_module[id[1]].ty
                         target == Get(Get(gs_in).map)[key]
                         new_id == Len(gs_module) + 1
                     IN  IF \E j \in DOMAIN id : gs_module[id[j]].name = None
                         THEN /\ gs_pc' = "fatal"
                              /\ UNCHANGED <<gs_module, gs_map, gs_idx>>
                         ELSE /\ gs_module' = Append(gs_module,
                                                     CallStub(ty_id, id, target, gs_idx))
                              /\ gs_map' = MapInsert(gs_map, key,
                                                     MapValue(Some(<<new_id>>), FALSE))
                              /\ gs_idx' = gs_idx + 1
                              /\ UNCHANGED gs_pc
    /\ UNCHANGED <<gs_in, gs_stubs, mainvars, pmvars, fcvars, wrvars, rtvars>>

\* instrument.rs 145: every entry was visited.
GenerateStubsReturn ==
    /\ gs_pc = "loop"
    /\ gs_todo = {}
    /\ gs_pc' = "done"
    /\ UNCHANGED <<gs_in, gs_module, gs_map, gs_stubs, gs_idx, gs_todo,
                   mainvars, pmvars, fcvars, wrvars, rtvars>>

(***************************************************************************)
(* Execution of a stub in the module written.                              *)
(***************************************************************************)
RunStart(g) == [stack |-> <<>>, globals |-> g, status |-> "run",
                events |-> <<>>, writes |-> <<>>]
Push(st, v) == [st EXCEPT !.stack = Append(@, v)]
Pop(st, n) == [st EXCEPT !.stack = SubSeq(@, 1, Len(@) - n)]
Top(st, k) == st.stack[Len(st.stack) - k]     \* k = 0 is the top of the stack
Invalid(st) == [st EXCEPT !.status = "invalid"]
CallEvent(op, a, b, args, index) ==
    [op |-> op, a |-> a, b |-> b, args |-> args, index |-> index]

\* The instructions of sequence s of a body from position i on, in the
\* state st; locals gives the value of each local.  A call leaves no value
\* on the stack: the results of a function are not told apart.
RECURSIVE Exec(_, _, _, _, _, _)
Exec(funcs, body, locals, s, i, st) ==
    IF st.status # "run" \/ i > Len(body[s]) THEN st
    ELSE LET in == body[s][i]
             depth == Len(st.stack)
             params(ty) == NParams(ty)
             after ==
               CASE in.op = "local.get" -> Push(st, locals[in.a])
                 [] in.op = "i32.const" -> Push(st, in.a)
                 [] in.op \in {"i32.eq", "i32.ne", "i32.add"} ->
                      IF depth < 2 THEN Invalid(st)
                      ELSE Push(Pop(st, 2),
                                CASE in.op = "i32.eq" ->
                                        IF Top(st, 1) = Top(st, 0) THEN 1 ELSE 0
                                  [] in.op = "i32.ne" ->
                                        IF Top(st, 1) # Top(st, 0) THEN 1 ELSE 0
                                  [] OTHER -> Top(st, 1) + Top(st, 0))
                 [] in.op = "global.get" ->
                      IF in.a \in DOMAIN st.globals THEN Push(st, st.globals[in.a])
                      ELSE Invalid(st)
                 [] in.op = "global.set" ->
                      IF depth < 1 \/ in.a \notin DOMAIN st.globals THEN Invalid(st)
                      ELSE [Pop(st, 1) EXCEPT
                               !.globals = [@ EXCEPT ![in.a] = Top(st, 0)],
                               !.writes = Append(@, <<in.a, Top(st, 0)>>)]
                 [] in.op \in {"block", "loop"} ->
                      Exec(funcs, body, locals, in.a, 1, st)
                 [] in.op = "if_else" ->
                      IF depth < 1 THEN Invalid(st)
                      ELSE Exec(funcs, body, locals,
                                IF Top(st, 0) # 0 THEN in.a ELSE in.b, 1, Pop(st, 1))
                 [] in.op = "call_indirect" ->
                      LET n == params(FuncType(in.a, 0))
                      IN  IF depth < n + 1 THEN Invalid(st)
                          ELSE [Pop(st, n + 1) EXCEPT !.events =
                                  Append(@, CallEvent("call_indirect", in.a, in.b,
                                                      SubSeq(st.stack, depth - n, depth - 1),
                                                      Top(st, 0)))]
                 [] in.op = "call" ->
                      LET n == params(funcs[in.a].ty)
                      IN  IF depth < n THEN Invalid(st)
                          ELSE [Pop(st, n) EXCEPT !.events =
                                  Append(@, CallEvent("call", in.a, 0,
                                                      SubSeq(st.stack, depth - n + 1, depth),
                                                      0))]
                 [] in.op = "return" -> [st EXCEPT !.status = "return"]
                 [] in.op = "unreachable" -> [st EXCEPT !.status = "trap"]
                 [] OTHER -> st
         IN  Exec(funcs, body, locals, s, i + 1, after)

\* A call of function f with the operands given: the k-th operand is the
\* value of the k-th local of func.args.
Run(funcs, f, operands, g) ==
    LET args == funcs[f].args
        Local(l) == LET j == CHOOSE k \in DOMAIN args : args[k] = l
                    IN  IF j <= Len(operands) THEN operands[j] ELSE 0
        locals == [l \in { args[k] : k \in DOMAIN args } |-> Local(l)]
        end == Exec(funcs, funcs[f].body, locals, 1, 1, RunStart(g))
    IN  IF end.status = "run" THEN [end EXCEPT !.status = "return"] ELSE end

\* The operands a call site leaves for a stub: the arguments of the call
\* it replaced, the table index, and for an instrument stub the site index.
RTArgs == {9}
RTTargets == {0, 1, 2}
IsStub(func, kind) == func.name # None /\ Get(func.name)[1] = kind
StubOperands(func, sites) ==
    LET args == [1 .. (func.ty.of - 1) -> RTArgs]
    IN  IF IsStub(func, "indirect_stub")
        THEN { a \o <<t, i>> : a \in args, t \in RTTargets, i \in sites }
        ELSE { a \o <<v>> : a \in args, v \in RTTargets }

\* The module written by an instrument run of main is instantiated.
InstantiateOutfile ==
    /\ pc = "done"
    /\ ~is_opt
    /\ rt_pc = "off"
    /\ rt_pc' = "running"
    /\ rt_funcs' = Get(outfile).funcs
    /\ rt_table' = None
    /\ rt_globals' = [g \in 0 .. (globals - 1) |-> -1]
    /\ UNCHANGED <<rt_executed, rt_last, mainvars, pmvars, fcvars, wrvars, gsvars>>

\* The module generate_stubs worked on is instantiated.
InstantiateStubs ==
    /\ gs_pc = "done"
    /\ rt_pc = "off"
    /\ rt_pc' = "running"
    /\ rt_funcs' = gs_module
    /\ rt_table' = Some(Get(gs_in).segment)
    /\ rt_globals' = EmptyMap
    /\ UNCHANGED <<rt_executed, rt_last, mainvars, pmvars, fcvars, wrvars, gsvars>>

\* A call site of the running module calls a stub.
CallThroughStub ==
    /\ rt_pc = "running"
    /\ \E f \in { x \in DOMAIN rt_funcs : IsStub(rt_funcs[x], "indirect_stub")
                                           \/ IsStub(rt_funcs[x], "indirect_call_stub") } :
         \E operands \in StubOperands(rt_funcs[f],
                                      IF DOMAIN rt_globals = {} THEN {0, 1}
                                      ELSE DOMAIN rt_globals) :
            \E end \in { Run(rt_funcs, f, operands, rt_globals) } :
                /\ rt_globals' = end.globals
                /\ rt_last' = Some([func |-> f, operands |-> operands,
                                    status |-> end.status, events |-> end.events,
                                    writes |-> end.writes])
                /\ rt_executed' = IF IsStub(rt_funcs[f], "indirect_stub")
                                  THEN rt_executed \cup {operands[Len(operands)]}
                                  ELSE rt_executed
    /\ UNCHANGED <<rt_pc, rt_funcs, rt_table, mainvars, pmvars, fcvars, wrvars, gsvars>>

NextGS ==
    \/ GenerateIndirectStub
    \/ GenerateCallStub
    \/ GenerateStubsReturn
    \/ InstantiateStubs
    \/ CallThroughStub
SpecGS == InitGS /\ [][NextGS]_vars

\* An instrument run of main, and the module it wrote at run time.  The
\* modules run have no site, two sites of two types, or three sites two of
\* which share a type and with it a stub.
RTShapes == { <<1>>, <<3>>, <<2, 3>> }
InitRT ==
    /\ Init
    /\ ~is_opt
    /\ overflow_checks
    /\ \E sh \in RTShapes :
          infile.funcs = [f \in DOMAIN sh |-> InputFunction(f, sh[f], TRUE)]
NextRT ==
    \/ ResolveProfile
    \/ ScanTypes
    \/ GenerateInstrumentStub
    \/ StubsDone
    \/ EnterFunc
    \/ ScanSeq
    \/ RewriteSiteInstrument
    \/ LeaveFunc
    \/ WireGlobals
    \/ EmitWasm
    \/ InstantiateOutfile
    \/ CallThroughStub
SpecRT == InitRT /\ [][NextRT]_vars

\* The stubs of both generations at run time.
InitStub == InitGS \/ InitRT
NextStub ==
    \/ GenerateIndirectStub
    \/ GenerateCallStub
    \/ GenerateStubsReturn
    \/ InstantiateStubs
    \/ NextRT
SpecStub == InitStub /\ [][NextStub]_vars

(***************************************************************************)
(* Properties.                                                             *)
(***************************************************************************)
\* The functions of the module file read, as read and as they are now.
InputFuncs == DOMAIN infile.funcs
Orig(f, s) == infile.funcs[f].body[s]
Curr(f, s) == module.funcs[f].body[s]

\* The positions of Orig(f, s) whose instruction a rewrite has visited.
Rewritten(f, s) == { i \in DOMAIN Orig(f, s) : Orig(f, s)[i].loc \in DOMAIN site_index }
Before(f, s, i) == Cardinality({ j \in Rewritten(f, s) : j < i })
IsStubOf(f, ty) ==
    /\ f \in DOMAIN module.funcs
    /\ f \notin InputFuncs
    /\ module.funcs[f].ty = FuncType(ty, 2)
    /\ module.funcs[f].name # None
    /\ Get(module.funcs[f].name)[1] = "indirect_stub"

\* C1: in instrument mode, every rewritten site is a call_indirect of the
\* input; where it stood (shifted by one per site rewritten before it in the
\* same sequence) the sequence holds i32.const(index of the site) immediately
\* followed by call stub(type of the site); the sequence is one instruction
\* longer per rewritten site, and every other instruction is unchanged and
\* in the same relative order.
C1_InstrumentRewrite ==
    ~is_opt =>
        \A f \in InputFuncs : \A s \in DOMAIN infile.funcs[f].body :
            /\ Len(Curr(f, s)) = Len(Orig(f, s)) + Cardinality(Rewritten(f, s))
            /\ \A i \in DOMAIN Orig(f, s) :
                 LET o == Orig(f, s)[i]
                     at == i + Before(f, s, i)
                 IN  IF i \in Rewritten(f, s)
                     THEN /\ o.op = "call_indirect"
                          /\ Curr(f, s)[at] = ConstI(site_index[o.loc])
                          /\ Curr(f, s)[at + 1].op = "call"
                          /\ Curr(f, s)[at + 1].loc = NoLoc
                          /\ IsStubOf(Curr(f, s)[at + 1].a, o.a)
                     ELSE Curr(f, s)[at] = o

\* Witness of C1: two sites of one sequence have been rewritten.
C1_Witness ==
    /\ ~is_opt
    /\ \E f \in InputFuncs : \E s \in DOMAIN infile.funcs[f].body :
         Cardinality(Rewritten(f, s)) >= 2

\* C2: in optimize mode every instruction sequence of the module read keeps
\* its length, whatever the entries of the sites rewritten so far, and every
\* site still waiting in insertion_point addresses a call_indirect of its
\* recorded type.
C2_OptimizeKeepsLength ==
    is_opt =>
        /\ \A f \in InputFuncs : \A s \in DOMAIN infile.funcs[f].body :
             Len(Curr(f, s)) = Len(Orig(f, s))
        /\ pc = "rewrite" =>
             \A n \in DOMAIN insertion_point :
                LET seq == insertion_point[n][1]
                    point == insertion_point[n][2]
                IN  /\ point < Len(Curr(cur, seq))
                    /\ Curr(cur, seq)[point + 1].op = "call_indirect"
                    /\ Curr(cur, seq)[point + 1].a = insertion_point[n][3]

\* Witness of C2: a site has been made direct or unreachable while a later
\* site of the same sequence is still waiting.
C2_Witness ==
    /\ is_opt
    /\ pc = "rewrite"
    /\ insertion_point # <<>>
    /\ \E i \in Rewritten(cur, insertion_point[1][1]) :
         LET v == modified_map[site_index[Orig(cur, insertion_point[1][1])[i].loc]]
         IN  v.f_id # None \/ v.f_bool

\* C3: in optimize mode, a site whose entry holds a stub has become call
\* stub, a site whose entry is unreachable has become unreachable, a site
\* whose entry is the no-op is unchanged, and so is every other instruction.
C3_OptimizeOutcome ==
    is_opt =>
        \A f \in InputFuncs : \A s \in DOMAIN infile.funcs[f].body :
            /\ Len(Curr(f, s)) = Len(Orig(f, s))
            /\ \A i \in DOMAIN Orig(f, s) :
                 LET o == Orig(f, s)[i]
                     c == Curr(f, s)[i]
                 IN  IF i \in Rewritten(f, s)
                     THEN LET v == modified_map[site_index[o.loc]]
                          IN  /\ o.op = "call_indirect"
                              /\ IF v.f_id # None
                                 THEN /\ c = CallI(Get(v.f_id))
                                      /\ Get(v.f_id) \notin InputFuncs
                                 ELSE IF v.f_bool THEN c = UnreachableI
                                 ELSE c = o
                     ELSE c = o

\* Witness of C3: a finished optimize run that made one site direct and
\* another unreachable.
C3_Witness ==
    /\ is_opt
    /\ pc = "done"
    /\ \E a, b \in DOMAIN site_index :
         /\ modified_map[site_index[a]].f_id # None
         /\ modified_map[site_index[b]].f_id = None
         /\ modified_map[site_index[b]].f_bool

\* The sequences the inventory of a function reaches: nested blocks and loops.
RECURSIVE NestedSeqs(_, _)
NestedSeqs(body, s) ==
    {s} \cup UNION { IF body[s][i].op \in {"block", "loop"}
                     THEN NestedSeqs(body, body[s][i].a) ELSE {}
                     : i \in DOMAIN body[s] }
NumSites(body, seqs) ==
    Cardinality(UNION { { <<s, i>> : i \in { j \in DOMAIN body[s] :
                                                body[s][j].op = "call_indirect" } }
                        : s \in seqs })
\* The number of call-site indices of the module read.
NumIndexed ==
    LET n[f \in 0 .. Len(infile.funcs)] ==
            IF f = 0 THEN 0
            ELSE n[f - 1] + NumSites(infile.funcs[f].body,
                                     NestedSeqs(infile.funcs[f].body, 1))
    IN  n[Len(infile.funcs)]

C9_Numbering ==
    /\ Cardinality(DOMAIN site_index) = global_index
    /\ { site_index[l] : l \in DOMAIN site_index } = 0 .. (global_index - 1)
    /\ (run = 2 /\ ~prev.is_opt) =>
          \A l \in DOMAIN site_index :
             /\ l \in DOMAIN prev.site_index
             /\ site_index[l] = prev.site_index[l]
    /\ \A l, m \in DOMAIN site_index :
          (Len(l) = 3 /\ Len(m) = 3) =>
             /\ l[1] < m[1] => site_index[l] < site_index[m]
             /\ (l[1] = m[1] /\ l[2] = m[2] /\ l[3] < m[3]) =>
                   site_index[l] < site_index[m]

\* Witness of C9: an optimize run has looked up two sites of a module file
\* that an instrument run numbered before.
C9_Witness ==
    /\ run = 2
    /\ ~prev.is_opt
    /\ pc = "done"
    /\ global_index >= 2

\* The first run left no inventoried call_indirect in place.
NoSiteRetained ==
    \A l \in DOMAIN prev.site_index :
       LET v == prev.modified_map[prev.site_index[l]]
       IN  v.f_id # None \/ v.f_bool

CallIndirects(func) == { in \in InstrsOf(func.body) : in.op = "call_indirect" }
NumCallIndirects ==
    LET n[f \in 0 .. Len(infile.funcs)] ==
            IF f = 0 THEN 0
            ELSE n[f - 1] + Cardinality(CallIndirects(infile.funcs[f]))
    IN  n[Len(infile.funcs)]

\* C8 as stated: after instrument mode no function of the input holds a
\* call_indirect, and as many indices were given as the input has
\* call_indirect instructions.
C8_InventoryComplete ==
    (~is_opt /\ pc = "done") =>
        /\ \A f \in InputFuncs : CallIndirects(module.funcs[f]) = {}
        /\ global_index = NumCallIndirects

\* C7 as stated: without a main function table process_map does not fail
\* and leaves an empty modified_map.
C7_NoTableNoFailure ==
    (pm_pc \notin {"idle", "call"} /\ ~Get(pm_in).table.has) =>
        /\ pm_pc = "done"
        /\ pm_out = Ok(EmptyMap)

\* The first element segment handed to process_map.
PMSegment == Get(pm_in).table.segs[1]
HasSegment == Get(pm_in).table.has /\ Get(pm_in).table.segs # <<>>
\* v - offset is an index of the members of the segment: an offset constant
\* below 0 is, as a table offset, above every i32 observation.
InSegment(e, v) ==
    /\ e.offset.x >= 0
    /\ v - e.offset.x >= 0
    /\ v - e.offset.x < Len(e.members)
\* The entry section 4.1 gives to an observation list, None where it names
\* no entry (an observation outside the members, or an empty member).
ClaimedEntry(e, observations) ==
    LET IsReal(v) == v >= 0
        IsRetain(v) == v = -2
        real == SelectSeq(observations, IsReal)
    IN  IF Len(real) > 0 THEN
            IF \A j \in DOMAIN real :
                  InSegment(e, real[j]) /\ e.members[real[j] - e.offset.x + 1] # None
            THEN Some(MapValue(Some([j \in DOMAIN real |->
                                       Get(e.members[real[j] - e.offset.x + 1])]), FALSE))
            ELSE None
        ELSE IF Len(SelectSeq(observations, IsRetain)) = Len(observations)
        THEN Some(MapValue(None, FALSE))
        ELSE Some(MapValue(None, TRUE))

\* C4: when process_map returns for a table with an element segment, every
\* key of the profile has exactly the entry of the classification (Direct of
\* members[v - offset] for the observations v >= 0, in order, when there is
\* one; else Retain when every observation is -2; else Unreachable) and
\* there is no other entry.
C4_Classification ==
    (pm_pc = "done" /\ HasSegment) =>
        /\ DOMAIN Get(pm_out) = DOMAIN Get(pm_in).map
        /\ \A k \in DOMAIN Get(pm_in).map :
             LET claimed == ClaimedEntry(PMSegment, Get(pm_in).map[k])
             IN  claimed # None /\ Get(pm_out)[k] = Get(claimed)

\* Witness of C4: process_map returned a Direct entry of two callees for one
\* key and an Unreachable entry for another.
C4_Witness ==
    /\ pm_pc = "done"
    /\ HasSegment
    /\ \E k, l \in DOMAIN Get(pm_out) :
         /\ Get(pm_out)[k].f_id # None
         /\ Len(Get(Get(pm_out)[k].f_id)) = 2
         /\ Get(pm_out)[l] = MapValue(None, TRUE)

\* The first element segment main looks at.
MainSegment == infile.table.segs[1]
MainResolved ==
    /\ pc \notin {"idle", "resolve"}
    /\ is_opt
    /\ infile.table.has
    /\ infile.table.segs # <<>>

FCInstrsOf(f) ==
    LET order == DfsInstrs(Get(fc_in).funcs[f].body, 1, 1)
    IN  { order[i] : i \in DOMAIN order }
\* The functions compute_slowcalls returned as slow, and the others.
SLOW == Get(fc_set)
FAST == LocalFuncs \ SLOW
Whitelisted ==
    { k \in DOMAIN ImportNames : ImportNames[k] \in {"proc_exit", "fd_write"} }

\* C11 as stated: a local function other than _start whose only calls are
\* direct calls of proc_exit, of fd_write and of other local functions that
\* are FAST is not in the set compute_slowcalls returns.
C11_WhitelistNotPoisoning ==
    fc_pc = "done" =>
        \A f \in LocalFuncs \ {Get(Get(fc_in).start)} :
            (\A in \in FCInstrsOf(f) :
                /\ in.op # "call_indirect"
                /\ in.op = "call" =>
                      \/ in.a \in Whitelisted
                      \/ in.a \in FAST \ {f})
            => f \in FAST

\* C12 as stated: the function exported as _start is in the set
\* compute_slowcalls returns, whatever its body.
C12_StartIsSlow ==
    fc_pc = "done" => Get(Get(fc_in).start) \in SLOW

\* The members of the first element segment that have the type ty.
MembersOfType(ty) ==
    IF ~Get(fc_in).table.has THEN {}
    ELSE { Get(Get(fc_in).table.segs[1][j]) : j \in DOMAIN Get(fc_in).table.segs[1] }
         \cap { g \in LocalFuncs : Get(fc_in).funcs[g].ty = FuncType(ty, 0) }
Recursive(f) ==
    \E in \in FCInstrsOf(f) :
        \/ in.op = "call" /\ in.a = f
        \/ in.op = "call_indirect" /\ f \in MembersOfType(in.a)

\* C13: every local function that calls itself directly, or holds a
\* call_indirect of a type T while it is a member of type T of the first
\* element segment, is in the set compute_slowcalls returns.
C13_RecursionIsSlow ==
    fc_pc = "done" => \A f \in LocalFuncs : Recursive(f) => f \in SLOW

\* Witness of C13: a function that is not _start is recursive only through
\* a call_indirect, which is not the first instruction visited.
C13_Witness ==
    /\ fc_pc = "done"
    /\ \E f \in LocalFuncs \ {Get(Get(fc_in).start)} :
         /\ Recursive(f)
         /\ \A in \in FCInstrsOf(f) : in.op = "call" => in.a # f
         /\ Get(fc_in).funcs[f].body[1][1].op = "call"

\* The rule of C15 applied n times to X: is_fast(u) and deps(u) within X.
RECURSIVE FastClosure(_, _)
FastClosure(X, n) ==
    IF n = 0 THEN X
    ELSE FastClosure({ u \in LocalFuncs :
                         scan_results[u].is_fastcall /\ scan_results[u].deps \subseteq X },
                     n - 1)
LeastFast == FastClosure({}, Cardinality(LocalFuncs))

\* C15: the functions compute_slowcalls does not return are the least set
\* closed under 'is_fast(u) and deps(u) within FAST'; the set returned holds
\* every function with is_fast = false, with a dependency in it, or left
\* unknown; the two sets are disjoint and cover the local functions.
C15_FixedPoint ==
    fc_pc = "done" =>
        /\ FAST = LeastFast
        /\ fastcalls = FAST
        /\ SLOW = slowcalls
        /\ SLOW \subseteq LocalFuncs
        /\ \A u \in LocalFuncs :
              (\/ ~scan_results[u].is_fastcall
               \/ scan_results[u].deps \cap SLOW # {}
               \/ u \in unknown) => u \in SLOW

\* Witness of C15: the loop moved a function with dependencies to fast, and
\* a function whose scan found it fast was returned as slow.
C15_Witness ==
    /\ fc_pc = "done"
    /\ \E u \in FAST : scan_results[u].deps # {}
    /\ \E u \in SLOW : scan_results[u].is_fastcall

\* C16: the loop ends (compute_slowcalls returns or panics); an iteration
\* that is not the last one removes a function from unknown; and no step
\* takes a function out of fastcalls or slowcalls, puts one in both, or puts
\* one back in unknown.
C16_Terminates ==
    /\ <>(fc_pc \in {"done", "fatal"})
    /\ [][(fc_pc = "loop" /\ fc_pc' = "loop") =>
             \/ Cardinality(unknown') < Cardinality(unknown)
             \/ Cardinality(unknown') = fc_prev']_vars
    /\ [][fc_pc = "loop" =>
             /\ fastcalls \subseteq fastcalls'
             /\ slowcalls \subseteq slowcalls'
             /\ fastcalls' \cap slowcalls' = {}
             /\ unknown' \subseteq unknown
             /\ fc_pc' = "loop" => unknown' \cap (fastcalls' \cup slowcalls') = {}]_vars

\* Witness of C16: the loop is about to run a second iteration.
C16_Witness ==
    /\ fc_pc = "loop"
    /\ fc_prev > 0
    /\ Cardinality(unknown) # fc_prev

\* The stub generated for the slowcall f.
wrapper(f) == func_mapping[f]

\* C14: after generate_slowcall_stubs every slowcall f has a stub of its
\* own, a new function whose body counts the call, passes the parameters on
\* and still calls f; in every function given, f itself included, a call of
\* a slowcall f is a call of wrapper(f) and every other instruction is what
\* it was; no stub calls a stub.
C14_SlowcallWrapping ==
    wr_pc = "done" =>
        /\ DOMAIN func_mapping = wr_slowcalls
        /\ \A f \in wr_slowcalls :
              /\ wrapper(f) \in (DOMAIN wr_module) \ (DOMAIN wr_in)
              /\ \A g \in wr_slowcalls : wrapper(g) = wrapper(f) => g = f
              /\ wr_module[wrapper(f)] = SlowcallStub(f, wr_in[f].ty)
              /\ \A q \in DOMAIN wr_module[wrapper(f)].body :
                   \A i \in DOMAIN wr_module[wrapper(f)].body[q] :
                      LET in == wr_module[wrapper(f)].body[q][i]
                      IN  in.op = "call" => in.a = f /\ in.a # wrapper(f)
        /\ \A g \in DOMAIN wr_in :
              /\ DOMAIN wr_module[g].body = DOMAIN wr_in[g].body
              /\ \A q \in DOMAIN wr_in[g].body :
                   /\ Len(wr_module[g].body[q]) = Len(wr_in[g].body[q])
                   /\ \A i \in DOMAIN wr_in[g].body[q] :
                        LET old == wr_in[g].body[q][i]
                            new == wr_module[g].body[q][i]
                        IN  IF old.op = "call" /\ old.a \in wr_slowcalls
                            THEN new = CallI(wrapper(old.a))
                            ELSE new = old

\* Witness of C14: a slowcall that calls itself, is called from another
\* function in a nested block, next to a call of a function that is not a
\* slowcall; two stubs exist.
C14_Witness ==
    /\ wr_pc = "done"
    /\ 6 \in wr_slowcalls
    /\ 4 \in wr_slowcalls
    /\ 5 \notin wr_slowcalls
    /\ wr_in[6].body = << <<CallI(6)>> >>
    /\ wr_in[4].body = << <<BlockI(2), CallI(5)>>, <<CallI(6), CallI(4)>> >>
    /\ wr_in[5].body = << <<CallI(4), CallI(5)>> >>

\* The latest call through a stub: its operands without the trailing i32
\* parameters of the stub, the last operand and the one before it.
LastCall == Get(rt_last)
LastStub == rt_funcs[LastCall.func]
LastArgs == SubSeq(LastCall.operands, 1, LastStub.ty.of - 1)
Trailing == LastCall.operands[Len(LastCall.operands)]
BeforeTrailing == LastCall.operands[Len(LastCall.operands) - 1]
ThroughStub(kind) == rt_last # None /\ IsStub(LastStub, kind)

\* The entry of the profile an optimize stub was made for, and the member
\* of the segment at table slot v.
KeyOf(f) == CHOOSE key \in DOMAIN gs_map : gs_map[key].f_id = Some(<<f>>)
Observed(f) == Get(Get(gs_in).map)[KeyOf(f)]
SlotMember(v) ==
    LET e == Get(rt_table)
        j == (v - e.offset.x) + 1
    IN  IF j \in DOMAIN e.members THEN e.members[j] ELSE None

\* C17 as stated: a call of the stub of a Direct entry with the table index
\* v calls the function at table slot v with the arguments given and
\* returns when v is one of the observations of the entry, and traps
\* without a call for every other v.
C17_SpecializationStub ==
    ThroughStub("indirect_call_stub") =>
        IF \E j \in DOMAIN Observed(LastCall.func) :
              Observed(LastCall.func)[j] = Trailing
        THEN /\ LastCall.status = "return"
             /\ LastCall.events =
                  <<CallEvent("call", Get(SlotMember(Trailing)), 0, LastArgs, 0)>>
        ELSE /\ LastCall.status = "trap"
             /\ LastCall.events = <<>>

\* The callees of the entry of key in the modified_map given.
Callees(key) == Get(Get(gs_in).modified_map[key].f_id)
TypeMismatch(key) ==
    /\ Get(gs_in).modified_map[key].f_id # None
    /\ \E j, k \in DOMAIN Callees(key) :
          Get(gs_in).funcs[Callees(key)[j]].ty # Get(gs_in).funcs[Callees(key)[k]].ty

\* C18 as stated: once generate_stubs has visited a Direct entry whose
\* callees do not all have the same type, it has aborted.
C18_TypeMismatchFatal ==
    (gs_in # None /\ Get(gs_in).is_opt) =>
        \A key \in (DOMAIN Get(gs_in).modified_map) \ gs_todo :
            TypeMismatch(key) => gs_pc = "fatal"

SlotsOf(i) == {i} \cap DOMAIN rt_globals
Sites == DOMAIN rt_globals

\* C20: a call through a stub with site index i and target t changes only
\* observation globals of site i; it writes t only to a global of site i
\* that holds -1 or t, and after that write it writes nothing more; a
\* global that is not -1 is never -1 again; the globals of a site no call
\* has named are -1; and no target is held by two globals of one site.
C20_ObservationState ==
    /\ [](\A i \in Sites \ rt_executed : \A g \in SlotsOf(i) : rt_globals[g] = -1)
    /\ [](\A i \in Sites : \A g, h \in SlotsOf(i) :
             (g # h /\ rt_globals[g] = rt_globals[h]) => rt_globals[g] \in {-1, -2})
    /\ [][(rt_pc = "running" /\ rt_last' # None) =>
            LET call == Get(rt_last')
                i == call.operands[Len(call.operands)]
                t == call.operands[Len(call.operands) - 1]
            IN  /\ \A g \in DOMAIN rt_globals :
                      g \notin SlotsOf(i) => rt_globals'[g] = rt_globals[g]
                /\ \A w \in DOMAIN call.writes :
                      /\ call.writes[w][1] \in SlotsOf(i)
                      /\ call.writes[w][2] = t =>
                            /\ rt_globals[call.writes[w][1]] \in {-1, t}
                            /\ w = Len(call.writes)
                /\ \A g \in DOMAIN rt_globals :
                      rt_globals[g] # -1 => rt_globals'[g] # -1]_vars

\* Witness of C20: of three sites one has seen two targets, one has seen
\* one target, and one was never named by a call.
C20_Witness ==
    /\ rt_pc = "running"
    /\ DOMAIN rt_globals = {0, 1, 2}
    /\ rt_globals[0] = -2
    /\ rt_globals[1] \in RTTargets
    /\ 2 \notin rt_executed
    /\ rt_globals[2] = -1
====
